---- MODULE Spec2Model ----
(***************************************************************************)
(* State-synchronisation engine of the sheet viewer (src/src/App.tsx):     *)
(* the App component's React state, the polling effect with its timers and *)
(* listeners, loadData and handleStatusChange, together with the remote    *)
(* sheet they talk to.                                                     *)
(*                                                                         *)
(* One action is one task of the browser's event loop: an event handler,  *)
(* a timer callback, or the continuation that runs when a network promise *)
(* settles, together with the render and the effect clean-up / set-up that *)
(* React runs as a consequence of the state it set.                       *)
(***************************************************************************)
EXTENDS Integers, Sequences, FiniteSets, TLC

\* ---------------------------------------------------------------- constants
FETCH_INTERVAL == 1000
IDLE_FETCH_INTERVAL == 2000
DEBOUNCE_DELAY == 100
IDLE_DEMOTE_DELAY == 60000

\* ------------------------------------------------------------------- bounds
\* handleStatusChange invocations recorded in a run
MaxEdits == 2
\* fetchSheetData calls in flight at once
MaxFetches == 2
\* changes other users make to the sheet in a run
MaxRemoteChanges == 1

\* Composite row keys `${msisdn}-${assignDate}`; a key stands for the pair.
Keys == {"k1", "k2"}
Status == {"Open", "Reserved"}

\* JavaScript's undefined, for a field of a row that was never fetched
Undefined == "undefined"
\* a cleared / never set timer handle
Off == -1

VARIABLES
    data,            \* useState<SheetRow[]>: sequence of rows [key, status]
    pendingUpdates,  \* useState<Map<string, boolean>>: the keys mapped to true
    cbPending,       \* pendingUpdates as captured by handleStatusChange's closure
    toast,           \* useState<ToastState | null>: "none" | "success" | "error"
    error,           \* useState<string | null>: "none" | "load" | "update"
    loading,         \* useState(true)
    refreshing,      \* useState(false)
    lastFetchAge,    \* Date.now() - lastFetchTime, saturating at IDLE_FETCH_INTERVAL
    mounted,         \* the App component is mounted
    hidden,          \* document.hidden
    timers,          \* the effect's timers: time left to fire, or Off
    fetches,         \* fetchSheetData calls in flight
    edits,           \* log of handleStatusChange invocations
    serverRows,      \* the remote sheet
    remoteChanges,   \* number of changes other users made so far
    selectedCategory,\* useState<string | null>: a category, or the empty string
    table            \* DataTable's state: search, sortField, sortDirection,
                     \* pageSize, currentPage

vars == <<data, pendingUpdates, cbPending, toast, error, loading, refreshing,
          lastFetchAge, mounted, hidden, timers, fetches, edits, serverRows,
          remoteChanges, selectedCategory, table>>

\* what the user sees and sets in the table and the category cards
viewState == <<selectedCategory, table>>

appState == <<data, pendingUpdates, cbPending, toast, error, loading, refreshing,
              lastFetchAge>>

\* ------------------------------------------------------------------ helpers
Min(a, b) == IF a < b THEN a ELSE b

Max(a, b) == IF a > b THEN a ELSE b

RemoveAt(s, i) == [j \in 1..(Len(s) - 1) |-> IF j < i THEN s[j] ELSE s[j + 1]]

Row(k, st) == [key |-> k, status |-> st]

\* An array slot that holds no row: reading it yields undefined.
Hole == Row(Undefined, Undefined)

\* newData = [...prev]; newData[i] = { ...newData[i], statusByCallCenter: st }
\* Writing past the end of a JavaScript array grows it; the slots in between
\* read as undefined, and spreading undefined gives a row with the status only.
SetStatusAt(rows, i, st) ==
    [j \in 1..(IF i > Len(rows) THEN i ELSE Len(rows)) |->
        IF j = i
        THEN IF j <= Len(rows) THEN [rows[j] EXCEPT !.status = st]
                               ELSE Row(Undefined, st)
        ELSE IF j <= Len(rows) THEN rows[j] ELSE Hole]

\* the rows of a collection that carry key k
RowsWithKey(rows, k) == {j \in 1..Len(rows) : rows[j].key = k}

\* The sheets the program starts against: two rows, or none.
InitialSheet == <<Row("k1", "Open"), Row("k2", "Reserved")>>

EmptySheet == <<>>

Toggle(st) == IF st = "Open" THEN "Reserved" ELSE "Open"


\* ---------------------------------------------------------------- the rows
\* A string is modelled as the sequence of its characters.

\* rows of the longest sheet the program is run against
MaxRows == 25

\* Keys of the rows of a long sheet, in sheet order.
LongKeys ==
    <<"n01", "n02", "n03", "n04", "n05", "n06", "n07", "n08", "n09", "n10",
      "n11", "n12", "n13", "n14", "n15", "n16", "n17", "n18", "n19", "n20",
      "n21", "n22", "n23", "n24", "n25", "n26", "n27", "n28", "n29", "n30">>

IsLongKey(k) == \E n \in 1..Len(LongKeys) : LongKeys[n] = k

KeyNumber(k) == CHOOSE n \in 1..Len(LongKeys) : LongKeys[n] = k

DigitChars == <<"0", "1", "2", "3", "4", "5", "6", "7", "8", "9">>

UndefinedChars == <<"u", "n", "d", "e", "f", "i", "n", "e", "d">>

\* String(row.msisdn) of the row with key k
Msisdn(k) ==
    IF k = "k1" THEN <<"9", "7", "1", "5", "0">>
    ELSE IF k = "k2" THEN <<"9", "7", "1", "2", "4">>
    ELSE IF IsLongKey(k)
         THEN <<"9", "7", "1", DigitChars[(KeyNumber(k) \div 10) + 1],
                DigitChars[(KeyNumber(k) % 10) + 1]>>
         ELSE UndefinedChars

\* row.assignDate
AssignDate(k) ==
    IF k = "k1" THEN <<"2", "4", "-", "0", "1">>
    ELSE IF k = "k2" THEN <<"2", "3", "-", "1", "2">>
    ELSE IF IsLongKey(k) THEN <<"2", "4", "-", "0", "1">> ELSE UndefinedChars

\* row.category
Category(k) ==
    IF k = "k1" THEN <<"G", "o", "l", "d">>
    ELSE IF k = "k2" THEN <<"V", "i", "p">>
    ELSE IF IsLongKey(k)
         THEN (IF KeyNumber(k) % 2 = 1 THEN <<"G", "o", "l", "d">> ELSE <<"V", "i", "p">>)
         ELSE UndefinedChars

\* row.owner
Owner(k) ==
    IF k = "k2" THEN <<"b", "o", "b">>
    ELSE IF k = "k1" \/ IsLongKey(k) THEN <<"a", "m", "y">> ELSE UndefinedChars

StatusChars(st) ==
    IF st = "Open" THEN <<"O", "p", "e", "n">>
    ELSE IF st = "Reserved" THEN <<"R", "e", "s", "e", "r", "v", "e", "d">>
    ELSE UndefinedChars

\* the keys of a SheetRow, in the order Object.keys / Object.values give them
Fields == <<"msisdn", "assignDate", "category", "owner", "statusByCallCenter">>

\* String(row[field])
FieldString(row, field) ==
    CASE field = "msisdn" -> Msisdn(row.key)
      [] field = "assignDate" -> AssignDate(row.key)
      [] field = "category" -> Category(row.key)
      [] field = "owner" -> Owner(row.key)
      [] field = "statusByCallCenter" -> StatusChars(row.status)

\* a long sheet of n rows
LongSheet(n) ==
    [i \in 1..n |-> Row(LongKeys[i], IF i % 2 = 0 THEN "Open" ELSE "Reserved")]

LongSheets == {LongSheet(n) : n \in 1..MaxRows}

\* ------------------------------------------------------------- strings
\* String.prototype.toLowerCase, on the letters the rows and queries use
Lower(c) ==
    CASE c = "G" -> "g" [] c = "V" -> "v" [] c = "O" -> "o" [] c = "R" -> "r"
      [] c = "E" -> "e" [] OTHER -> c

ToLowerCase(s) == [i \in 1..Len(s) |-> Lower(s[i])]

\* s.includes(t)
Includes(s, t) == \E i \in 0..(Len(s) - Len(t)) : SubSeq(s, i + 1, i + Len(t)) = t

\* s.startsWith(t)
StartsWith(s, t) == Len(t) <= Len(s) /\ SubSeq(s, 1, Len(t)) = t

\* s.endsWith(t)
EndsWith(s, t) == Len(t) <= Len(s) /\ SubSeq(s, Len(s) - Len(t) + 1, Len(s)) = t

\* /^\d+$/.test(s)
IsDigits(s) ==
    /\ Len(s) > 0
    /\ \A i \in 1..Len(s) : \E n \in 1..Len(DigitChars) : DigitChars[n] = s[i]

RECURSIVE TrimStart(_)
TrimStart(s) == IF Len(s) > 0 /\ s[1] = " " THEN TrimStart(Tail(s)) ELSE s

RECURSIVE TrimEnd(_)
TrimEnd(s) ==
    IF Len(s) > 0 /\ s[Len(s)] = " " THEN TrimEnd(SubSeq(s, 1, Len(s) - 1)) ELSE s

\* s.trim()
Trim(s) == TrimEnd(TrimStart(s))

\* s.split(sep) for a separator of one character
RECURSIVE SplitOn(_, _)
SplitOn(s, sep) ==
    IF \A i \in 1..Len(s) : s[i] # sep
    THEN <<s>>
    ELSE LET i == CHOOSE i \in 1..Len(s) : s[i] = sep /\ \A j \in 1..(i - 1) : s[j] # sep
         IN  <<SubSeq(s, 1, i - 1)>> \o SplitOn(SubSeq(s, i + 1, Len(s)), sep)

\* s.split(/\s+/) of a trimmed, non-empty string
SplitWhitespace(s) == SelectSeq(SplitOn(s, " "), LAMBDA part : Len(part) > 0)

\* parts.join('')
RECURSIVE Join(_)
Join(parts) == IF Len(parts) = 0 THEN <<>> ELSE Head(parts) \o Join(Tail(parts))

\* Collation order of the characters the field values use; letters compare
\* without regard to case.
Alphabet ==
    <<"-", "0", "1", "2", "3", "4", "5", "6", "7", "8", "9",
      "a", "b", "d", "e", "f", "g", "i", "l", "m", "n", "o", "p", "r", "s",
      "u", "v", "y">>

CharRank(c) == CHOOSE n \in 1..Len(Alphabet) : Alphabet[n] = Lower(c)

\* a.localeCompare(b): negative, zero or positive
RECURSIVE LocaleCompare(_, _)
LocaleCompare(a, b) ==
    IF Len(a) = 0 THEN (IF Len(b) = 0 THEN 0 ELSE -1)
    ELSE IF Len(b) = 0 THEN 1
    ELSE IF CharRank(a[1]) < CharRank(b[1]) THEN -1
    ELSE IF CharRank(a[1]) > CharRank(b[1]) THEN 1
    ELSE LocaleCompare(Tail(a), Tail(b))

\* array.slice(start, end)
Slice(s, start, end) ==
    LET from == IF start < 0 THEN (IF Len(s) + start < 0 THEN 0 ELSE Len(s) + start)
                ELSE Min(start, Len(s))
        to == IF end < 0 THEN (IF Len(s) + end < 0 THEN 0 ELSE Len(s) + end)
              ELSE Min(end, Len(s))
    IN  IF from < to THEN SubSeq(s, from + 1, to) ELSE <<>>

\* ------------------------------------------------------ the view pipeline
\* formatMsisdn
FormatMsisdn(msisdnStr) ==
    IF StartsWith(msisdnStr, <<"9", "7", "1">>)
    THEN <<"0">> \o SubSeq(msisdnStr, 4, Len(msisdnStr))
    ELSE msisdnStr

\* the "end" search pattern: the last term is "end" and there is another term
EndPattern(searchTerms) ==
    /\ Len(searchTerms) >= 2
    /\ searchTerms[Len(searchTerms)] = <<"e", "n", "d">>

\* the body of searchTerms.every(term => ...) for one row and one term
TermMatches(row, term, searchTerms) ==
    LET msisdnStr == Msisdn(row.key)
        category == ToLowerCase(Category(row.key))
        searchNumber == Join(SubSeq(searchTerms, 1, Len(searchTerms) - 1))
    IN  IF EndPattern(searchTerms) /\ IsDigits(searchNumber)
        THEN EndsWith(FormatMsisdn(msisdnStr), searchNumber)
        ELSE IF Includes(term, <<":">>)
        THEN LET parts == SplitOn(term, ":")
                 categorySearch == Trim(parts[1])
                 numberSearch == Trim(parts[2])
             IN  /\ Len(categorySearch) > 0
                 /\ Len(numberSearch) > 0
                 /\ Includes(category, categorySearch)
                 /\ Includes(msisdnStr, numberSearch)
        ELSE \/ IsDigits(term) /\ Includes(msisdnStr, term)
             \/ Includes(category, term)
             \/ Includes(msisdnStr, term)
             \/ \E f \in 1..Len(Fields) :
                   Includes(ToLowerCase(FieldString(row, Fields[f])), term)

\* search.toLowerCase().trim().split(/\s+/)
SearchTerms(search) == SplitWhitespace(Trim(ToLowerCase(search)))

\* filteredData of DataTable
SearchFilter(rows, search) ==
    IF Len(Trim(search)) = 0
    THEN rows
    ELSE LET searchTerms == SearchTerms(search)
         IN  SelectSeq(rows, LAMBDA row :
                 \A t \in 1..Len(searchTerms) : TermMatches(row, searchTerms[t], searchTerms))

\* no sort field chosen
NoSort == "null"

\* [...rows].sort(comparator): the sort is stable
SortRows(rows, sortField, sortDirection) ==
    LET value == [i \in 1..Len(rows) |-> FieldString(rows[i], sortField)]
        cmp(i, j) ==
            IF sortDirection = "asc"
            THEN LocaleCompare(value[i], value[j])
            ELSE LocaleCompare(value[j], value[i])
        before(i, j) == cmp(i, j) < 0 \/ (cmp(i, j) = 0 /\ i < j)
        position == [i \in 1..Len(rows) |->
                        1 + Cardinality({j \in 1..Len(rows) : before(j, i)})]
    IN  [p \in 1..Len(rows) |-> rows[CHOOSE i \in 1..Len(rows) : position[i] = p]]

\* displayData of DataTable
Sorted(rows, sortField, sortDirection) ==
    IF sortField = NoSort THEN rows ELSE SortRows(rows, sortField, sortDirection)

\* the value of the page-size option "All"
ALL_ROWS == -1

PageSizes == {10, 20, 50, 100, ALL_ROWS}

\* Math.ceil(n / d) for d > 0
Ceil(n, d) == (n + d - 1) \div d

\* totalPages of DataTable
TotalPagesOf(count, pageSize) == IF pageSize = ALL_ROWS THEN 1 ELSE Ceil(count, pageSize)

\* paginatedData of DataTable
PageOf(rows, currentPage, pageSize) ==
    IF pageSize = ALL_ROWS
    THEN rows
    ELSE Slice(rows, (currentPage - 1) * pageSize, currentPage * pageSize)

\* selectedCategory is null
NoCategory == <<>>

\* filteredData of App
FilterByCategory(rows, category) ==
    IF Len(category) = 0
    THEN rows
    ELSE SelectSeq(rows, LAMBDA row : Category(row.key) = category)

\* DataTable's state when it mounts
InitialTable ==
    [search |-> <<>>, sortField |-> NoSort, sortDirection |-> "asc",
     pageSize |-> 10, currentPage |-> 1]

\* App renders DataTable only while filteredData.length > 0; a DataTable that
\* is taken out of the tree loses its state and mounts again as new.
Rendered(t, rows, category) ==
    IF Len(FilterByCategory(rows, category)) > 0 THEN t ELSE InitialTable


\* ------------------------------------------------------------------- timers
NoTimers ==
    [fetchInterval |-> Off, idleInterval |-> Off,
     immediateUpdateTimeout |-> Off, idleTimeout |-> Off]

\* stopFetching: clears both cadence intervals and the debounce timeout
StopFetching(t) ==
    [t EXCEPT !.fetchInterval = Off, !.idleInterval = Off,
              !.immediateUpdateTimeout = Off]

\* slot = startFetching(interval): stopFetching(), then a new interval timer
StartFetching(t, slot, interval) ==
    [StopFetching(t) EXCEPT ![slot] = interval]

\* The timers the effect body arms: fetchInterval = startFetching(FETCH_INTERVAL)
\* on fresh handle variables.
EffectTimers == StartFetching(NoTimers, "fetchInterval", FETCH_INTERVAL)

\* handleUserActivity, statement by statement, on the effect's timer handles
UserActivityTimers(t) ==
    LET t1 == [t EXCEPT !.idleTimeout = Off]
        t2 == [t1 EXCEPT !.idleInterval = Off]
        t3 == [t2 EXCEPT !.immediateUpdateTimeout = DEBOUNCE_DELAY]
        t4 == StartFetching(t3, "fetchInterval", FETCH_INTERVAL)
    IN  [t4 EXCEPT !.idleTimeout = IDLE_DEMOTE_DELAY]

TimerSlots == {"fetchInterval", "idleInterval", "immediateUpdateTimeout", "idleTimeout"}

Armed(t) == {s \in TimerSlots : t[s] # Off}

\* time to the next timer deadline
NextDeadline(t) ==
    CHOOSE d \in {t[s] : s \in Armed(t)} : \A s \in Armed(t) : d <= t[s]

\* --------------------------------------------------------------- loadData
\* a call just made: the sheet has not answered yet
Fetch(origin, e) == [origin |-> origin, served |-> FALSE, snap |-> <<>>, edit |-> e]

\* room for one more fetchSheetData call in flight
CanDispatch == Len(fetches) < MaxFetches

\* showLoading is true only for the refresh button (handleRefresh)
ShowLoading(origin) == origin = "manual"

\* Does a failed fetch make the promise loadData returns reject?  The catch
\* block of loadData swallows the error, so it never does.
LoadDataRejects == FALSE

\* the guard left out
GuardBlocksNever(key) == FALSE

\* handleStatusChange's guard: the key has an entry in the pendingUpdates
\* map the callback closed over.
GuardBlocks(key) == key \in cbPending

\* a copy of the map with the delete left out
ClearPendingKeeps(prev, key) == prev

\* newMap = new Map(prev); newMap.delete(updateKey)
ClearPending(prev, key) == prev \ {key}

\* new Map(prev).set(updateKey, true)
MarkPending(prev, key) == prev \cup {key}

\* a tick that never passes its guard
TickGuardNever(age, interval) == FALSE

\* the guard of the setInterval callback: Date.now() - lastFetchTime >= interval
TickGuard(age, interval) == age >= interval

\* the fetched rows merged into the collection instead of replacing it
RefetchedMerges(prev, sheetData) == IF Len(prev) = Len(sheetData) THEN prev ELSE sheetData

\* setData(sheetData): the collection after a successful fetch
Refetched(prev, sheetData) == sheetData

\* state setters that also act on an unmounted component
SettersApplyAlways == TRUE

\* The setters of useState change the component's state only while the
\* component is mounted; React drops the updates of an unmounted component.
\* The code itself never asks whether it is mounted.
SettersApply == mounted

\* a clean-up that forgets window.clearTimeout(idleTimeout)
CleanupKeepsFallback(t) == StopFetching(t)

\* the effect's clean-up: stopFetching(), then window.clearTimeout(idleTimeout)
Cleanup(t) == [StopFetching(t) EXCEPT !.idleTimeout = Off]


\* --------------------------------------------------------------------- Init
\* The state after the first render and the first run of the effect:
\* loadData() is in flight and the ACTIVE cadence timer is armed.
Init ==
    /\ data = <<>>
    /\ pendingUpdates = {}
    /\ cbPending = {}
    /\ toast = "none"
    /\ error = "none"
    /\ loading = TRUE
    /\ refreshing = FALSE
    /\ lastFetchAge = 0
    /\ mounted = TRUE
    /\ hidden = FALSE
    /\ timers = EffectTimers
    /\ fetches = <<Fetch("effect", 0)>>
    /\ edits = <<>>
    /\ serverRows \in {InitialSheet, EmptySheet} \cup LongSheets
    /\ remoteChanges = 0
    /\ selectedCategory = NoCategory
    /\ table = InitialTable

\* ------------------------------------------------------------ remote sheet
\* What another user can turn the sheet into with one change: a row's status
\* toggled, a row deleted, or the rows reordered.
RemoteEdits(rows) ==
    {[rows EXCEPT ![i].status = Toggle(@)] : i \in 1..Len(rows)}
    \cup {RemoveAt(rows, i) : i \in 1..Len(rows)}
    \cup (IF Len(rows) > 1
          THEN {[j \in 1..Len(rows) |-> rows[Len(rows) + 1 - j]]}
          ELSE {})

RemoteChange ==
    /\ remoteChanges < MaxRemoteChanges
    /\ \E rows \in RemoteEdits(serverRows) : serverRows' = rows
    /\ remoteChanges' = remoteChanges + 1
    /\ UNCHANGED <<appState, mounted, hidden, timers, fetches, edits>>
    /\ UNCHANGED viewState


\* The sheet answers a fetch with its rows as they are now.
FetchServe(f) ==
    /\ ~fetches[f].served
    /\ fetches' = [fetches EXCEPT ![f].served = TRUE, ![f].snap = serverRows]
    /\ UNCHANGED <<appState, mounted, hidden, timers, edits, serverRows, remoteChanges>>
    /\ UNCHANGED viewState


\* updateStatus(rowIndex, newStatus) reaches the sheet: the sheet writes the
\* status of the row at that position.
UpdateApply(e) ==
    /\ edits[e].phase = "submitting"
    /\ ~edits[e].applied
    /\ edits[e].idx <= Len(serverRows)
    /\ serverRows' = [serverRows EXCEPT ![edits[e].idx].status = edits[e].new]
    /\ edits' = [edits EXCEPT ![e].applied = TRUE]
    /\ UNCHANGED <<appState, mounted, hidden, timers, fetches, remoteChanges>>
    /\ UNCHANGED viewState



\* ---------------------------------------------------------------- loadData
\* The effect re-runs when lastFetchTime changes (its dependency list): the
\* clean-up clears every timer of the old run and detaches its listeners, the
\* body calls loadData() and arms the ACTIVE cadence on fresh handles.  A
\* network round trip takes longer than a millisecond, so Date.now() always
\* differs from the lastFetchTime set before the call was made.

\* fetchSheetData() resolved: the rest of loadData's try block and its
\* finally, the continuation of an edit awaiting it, the render, the effect.
FetchSucceed(f) ==
    LET fr == fetches[f]
        rest == RemoveAt(fetches, f)
        waited == fr.origin = "confirm"
    IN  /\ fr.served
        /\ edits' = IF waited
                    THEN [edits EXCEPT ![fr.edit].phase = "confirmed",
                                       ![fr.edit].okToasts = @ + 1]
                    ELSE edits
        /\ IF SettersApply
           THEN /\ pendingUpdates' = {}
                /\ data' = Refetched(data, fr.snap)
                /\ cbPending' = {}
                /\ lastFetchAge' = 0
                /\ refreshing' = IF ShowLoading(fr.origin) THEN FALSE ELSE refreshing
                /\ loading' = FALSE
                /\ toast' = IF waited THEN "success" ELSE toast
                /\ error' = "none"
                /\ timers' = EffectTimers
                /\ fetches' = Append(rest, Fetch("effect", 0))
                /\ table' = Rendered(table, data', selectedCategory)
           ELSE /\ fetches' = rest
                /\ UNCHANGED <<appState, timers, table>>
        /\ UNCHANGED <<mounted, hidden, serverRows, remoteChanges, selectedCategory>>

\* The catch block of handleStatusChange for edit e, with fs the calls in
\* flight when it runs: clear the pending entry, write the pre-edit status
\* back at rowIndex, setError, setToast, loadData() (whose first statement is
\* setError(null)).
CatchBlock(e, fs) ==
    /\ edits' = [edits EXCEPT ![e].phase = "failed", ![e].failToasts = @ + 1]
    /\ fetches' = Append(fs, Fetch("rollback", 0))
    /\ IF SettersApply
       THEN /\ pendingUpdates' = ClearPending(pendingUpdates, edits[e].key)
            /\ data' = SetStatusAt(data, edits[e].idx, edits[e].pre)
            /\ cbPending' = pendingUpdates'
            /\ error' = "none"
            /\ toast' = "error"
       ELSE UNCHANGED <<pendingUpdates, data, cbPending, error, toast>>

\* fetchSheetData() rejected: loadData's catch and finally, then the
\* continuation of an edit awaiting it.
FetchFail(f) ==
    LET fr == fetches[f]
        rest == RemoveAt(fetches, f)
        waited == fr.origin = "confirm"
    IN  /\ IF SettersApply
           THEN /\ refreshing' = IF ShowLoading(fr.origin) THEN FALSE ELSE refreshing
                /\ loading' = FALSE
           ELSE UNCHANGED <<refreshing, loading>>
        /\ IF waited /\ LoadDataRejects
           THEN CatchBlock(fr.edit, rest)
           ELSE /\ fetches' = rest
                /\ edits' = IF waited
                            THEN [edits EXCEPT ![fr.edit].phase = "confirmed",
                                               ![fr.edit].okToasts = @ + 1]
                            ELSE edits
                /\ IF SettersApply
                   THEN /\ error' = "load"
                        /\ toast' = IF waited THEN "success" ELSE toast
                   ELSE UNCHANGED <<error, toast>>
                /\ UNCHANGED <<pendingUpdates, data, cbPending>>
        /\ UNCHANGED <<lastFetchAge, mounted, hidden, timers, serverRows, remoteChanges>>
        /\ UNCHANGED viewState


\* handleRefresh: the refresh button, disabled while refreshing and absent
\* while the first load shows the spinner.
HandleRefresh ==
    /\ mounted
    /\ ~refreshing
    /\ ~(loading /\ data = <<>>)
    /\ CanDispatch
    /\ refreshing' = TRUE
    /\ error' = "none"
    /\ fetches' = Append(fetches, Fetch("manual", 0))
    /\ UNCHANGED <<data, pendingUpdates, cbPending, toast, loading, lastFetchAge,
                   mounted, hidden, timers, edits, serverRows, remoteChanges>>
    /\ UNCHANGED viewState



\* ------------------------------------------------------ handleStatusChange
NewEdit(i, st, ph) ==
    [key |-> data[i].key, idx |-> i, new |-> st, pre |-> data[i].status,
     phase |-> ph, applied |-> FALSE, okToasts |-> 0, failToasts |-> 0]

\* handleStatusChange(rowIndex, newStatus) up to its first await.  The
\* callback is rebuilt when data changes, so it reads the current data.
HandleStatusChange(i, st) ==
    /\ mounted
    /\ Len(edits) < MaxEdits
    /\ i \in 1..Len(data)
    /\ data[i].key \in Keys
    /\ st \in Status
    /\ IF GuardBlocks(data[i].key)
       THEN /\ edits' = Append(edits, NewEdit(i, st, "ignored"))
            /\ UNCHANGED <<data, pendingUpdates, cbPending>>
       ELSE /\ edits' = Append(edits, NewEdit(i, st, "submitting"))
            /\ pendingUpdates' = MarkPending(pendingUpdates, data[i].key)
            /\ data' = SetStatusAt(data, i, st)
            /\ cbPending' = pendingUpdates'
    /\ UNCHANGED <<toast, error, loading, refreshing, lastFetchAge, mounted, hidden,
                   timers, fetches, serverRows, remoteChanges>>
    /\ UNCHANGED viewState


\* updateStatus resolved: clear the pending entry (data is not set, so the
\* callback keeps the map it closed over), then await loadData().
UpdateSucceed(e) ==
    /\ edits[e].phase = "submitting"
    /\ edits[e].applied
    /\ CanDispatch
    /\ edits' = [edits EXCEPT ![e].phase = "confirming"]
    /\ fetches' = Append(fetches, Fetch("confirm", e))
    /\ IF SettersApply
       THEN /\ pendingUpdates' = ClearPending(pendingUpdates, edits[e].key)
            /\ error' = "none"
       ELSE UNCHANGED <<pendingUpdates, error>>
    /\ UNCHANGED <<data, cbPending, toast, loading, refreshing, lastFetchAge, mounted,
                   hidden, timers, serverRows, remoteChanges>>
    /\ UNCHANGED viewState


\* updateStatus rejected (transport error before or after the sheet wrote the
\* row, or the sheet refusing the row): the catch block.
UpdateFail(e) ==
    /\ edits[e].phase = "submitting"
    /\ CanDispatch
    /\ CatchBlock(e, fetches)
    /\ UNCHANGED <<loading, refreshing, lastFetchAge, mounted, hidden, timers,
                   serverRows, remoteChanges>>
    /\ UNCHANGED viewState


\* Toast's onClose
CloseToast ==
    /\ mounted
    /\ toast # "none"
    /\ toast' = "none"
    /\ UNCHANGED <<data, pendingUpdates, cbPending, error, loading, refreshing,
                   lastFetchAge, mounted, hidden, timers, fetches, edits, serverRows,
                   remoteChanges>>
    /\ UNCHANGED viewState


\* ---------------------------------------------------------------- scheduler
\* Time passes up to the next timer deadline; a timer that is due fires first.
Advance ==
    /\ Armed(timers) # {}
    /\ \A s \in Armed(timers) : timers[s] > 0
    /\ LET d == NextDeadline(timers)
       IN  /\ timers' = [s \in TimerSlots |->
                            IF timers[s] = Off THEN Off ELSE timers[s] - d]
           /\ lastFetchAge' = Min(lastFetchAge + d, IDLE_FETCH_INTERVAL)
    /\ UNCHANGED <<data, pendingUpdates, cbPending, toast, error, loading, refreshing,
                   mounted, hidden, fetches, edits, serverRows, remoteChanges>>
    /\ UNCHANGED viewState


\* The setInterval callback of startFetching(interval) held in slot.
CadenceTick(slot, interval) ==
    /\ timers[slot] = 0
    /\ timers' = [timers EXCEPT ![slot] = interval]
    /\ IF TickGuard(lastFetchAge, interval)
       THEN /\ CanDispatch
            /\ fetches' = Append(fetches, Fetch("tick", 0))
            /\ error' = "none"
       ELSE UNCHANGED <<fetches, error>>
    /\ UNCHANGED <<data, pendingUpdates, cbPending, toast, loading, refreshing,
                   lastFetchAge, mounted, hidden, edits, serverRows, remoteChanges>>
    /\ UNCHANGED viewState


FetchIntervalFire == CadenceTick("fetchInterval", FETCH_INTERVAL)

IdleIntervalFire == CadenceTick("idleInterval", IDLE_FETCH_INTERVAL)

\* The debounce timeout's callback: loadData().
ImmediateUpdateFire ==
    /\ timers.immediateUpdateTimeout = 0
    /\ CanDispatch
    /\ timers' = [timers EXCEPT !.immediateUpdateTimeout = Off]
    /\ fetches' = Append(fetches, Fetch("debounce", 0))
    /\ error' = "none"
    /\ UNCHANGED <<data, pendingUpdates, cbPending, toast, loading, refreshing,
                   lastFetchAge, mounted, hidden, edits, serverRows, remoteChanges>>
    /\ UNCHANGED viewState


\* The fallback timeout's callback: idleInterval = startFetching(IDLE_FETCH_INTERVAL)
IdleTimeoutFire ==
    /\ timers.idleTimeout = 0
    /\ timers' = [StartFetching(timers, "idleInterval", IDLE_FETCH_INTERVAL)
                    EXCEPT !.idleTimeout = Off]
    /\ UNCHANGED <<appState, mounted, hidden, fetches, edits, serverRows, remoteChanges>>
    /\ UNCHANGED viewState


\* visibilitychange: document.hidden flips, then handleVisibilityChange if the
\* listener is attached.
VisibilityChange ==
    /\ hidden' = ~hidden
    /\ IF ~mounted
       THEN UNCHANGED <<timers, fetches, error>>
       ELSE IF hidden'
            THEN /\ timers' = StartFetching(timers, "idleInterval", IDLE_FETCH_INTERVAL)
                 /\ UNCHANGED <<fetches, error>>
            ELSE /\ CanDispatch
                 /\ timers' = StartFetching(timers, "fetchInterval", FETCH_INTERVAL)
                 /\ fetches' = Append(fetches, Fetch("visible", 0))
                 /\ error' = "none"
    /\ UNCHANGED <<data, pendingUpdates, cbPending, toast, loading, refreshing,
                   lastFetchAge, mounted, edits, serverRows, remoteChanges>>
    /\ UNCHANGED viewState


\* mousemove, keydown, scroll or click on window: handleUserActivity
UserActivity ==
    /\ mounted
    /\ timers' = UserActivityTimers(timers)
    /\ UNCHANGED <<appState, mounted, hidden, fetches, edits, serverRows, remoteChanges>>
    /\ UNCHANGED viewState


\* The component unmounts: the effect's clean-up clears the timers and
\* detaches the listeners.  React drops state updates of an unmounted
\* component.
Unmount ==
    /\ mounted
    /\ mounted' = FALSE
    /\ timers' = Cleanup(timers)
    /\ UNCHANGED <<appState, hidden, fetches, edits, serverRows, remoteChanges>>
    /\ UNCHANGED viewState


\* ---------------------------------------------------------------- DataTable
\* the data prop of DataTable: filteredData of App
TableData == FilterByCategory(data, selectedCategory)

\* DataTable is on screen
TableRendered == mounted /\ Len(TableData) > 0

FilteredData == SearchFilter(TableData, table.search)

DisplayData == Sorted(FilteredData, table.sortField, table.sortDirection)

TotalPages == TotalPagesOf(Len(DisplayData), table.pageSize)

PaginatedData == PageOf(DisplayData, table.currentPage, table.pageSize)

\* what the user types into the search box
Queries ==
    {<<>>, <<"2", "4">>, <<"z", "z">>, <<"5", "0", " ", "e", "n", "d">>, <<"g", "o", "l", "d", ":", "9", "7", "1">>, <<" ", "V", "i", "p", " ">>}

\* the columns the user sorts by
SortFields == {"msisdn", "category"}

\* the search box's onChange
SetSearch(q) ==
    /\ TableRendered
    /\ table' = [table EXCEPT !.search = q, !.currentPage = 1]
    /\ UNCHANGED <<appState, mounted, hidden, timers, fetches, edits, serverRows,
                   remoteChanges, selectedCategory>>

\* the page-size select's onChange
SetPageSize(n) ==
    /\ TableRendered
    /\ table' = [table EXCEPT !.pageSize = n, !.currentPage = 1]
    /\ UNCHANGED <<appState, mounted, hidden, timers, fetches, edits, serverRows,
                   remoteChanges, selectedCategory>>

\* the previous-page button: shown unless all rows are on one page, disabled
\* on page 1
PrevPage ==
    /\ TableRendered
    /\ table.pageSize # ALL_ROWS
    /\ table.currentPage # 1
    /\ table' = [table EXCEPT
                    !.currentPage = IF @ - 1 > 1 THEN @ - 1 ELSE 1]
    /\ UNCHANGED <<appState, mounted, hidden, timers, fetches, edits, serverRows,
                   remoteChanges, selectedCategory>>

\* the next-page button: disabled on the page whose number is totalPages
NextPage ==
    /\ TableRendered
    /\ table.pageSize # ALL_ROWS
    /\ table.currentPage # TotalPages
    /\ table' = [table EXCEPT !.currentPage = Min(TotalPages, @ + 1)]
    /\ UNCHANGED <<appState, mounted, hidden, timers, fetches, edits, serverRows,
                   remoteChanges, selectedCategory>>

\* handleSort: a click on a column header
HandleSort(field) ==
    /\ TableRendered
    /\ table' = IF field = table.sortField
                THEN [table EXCEPT
                        !.sortDirection = IF @ = "asc" THEN "desc" ELSE "asc"]
                ELSE [table EXCEPT !.sortField = field, !.sortDirection = "asc"]
    /\ UNCHANGED <<appState, mounted, hidden, timers, fetches, edits, serverRows,
                   remoteChanges, selectedCategory>>

\* the categories that have a card: those of the rows of data
Categories == {Category(data[i].key) : i \in 1..Len(data)}

\* handleCategoryClick: a click on the card of a category
HandleCategoryClick(category) ==
    /\ mounted
    /\ category \in Categories
    /\ selectedCategory' = IF selectedCategory = category THEN NoCategory ELSE category
    /\ table' = Rendered(table, data, selectedCategory')
    /\ UNCHANGED <<appState, mounted, hidden, timers, fetches, edits, serverRows,
                   remoteChanges>>

\* status changes made in the table in a run
MaxTableEdits == 1

\* the confirmation left out
NeedsConfirmNever(newStatus) == FALSE

\* window.confirm is shown for a change to Reserved only
NeedsConfirm(newStatus) == newStatus = "Reserved"

\* the log entry of a change the user declined in the confirmation dialog
Declined(st) ==
    [key |-> Undefined, idx |-> 0, new |-> st, pre |-> Undefined,
     phase |-> "declined", applied |-> FALSE, okToasts |-> 0, failToasts |-> 0]

\* data.findIndex(row => row.msisdn === targetRow.msisdn &&
\*                       row.assignDate === targetRow.assignDate), 0-based
FindIndex(rows, targetRow) ==
    IF \E i \in 1..Len(rows) : rows[i].key = targetRow.key
    THEN (CHOOSE i \in 1..Len(rows) :
             /\ rows[i].key = targetRow.key
             /\ \A j \in 1..(i - 1) : rows[j].key # targetRow.key) - 1
    ELSE -1

\* handleStatusChange of DataTable: the user picks newStatus in the select of
\* the row at displayIndex of the page shown and answers the confirmation
\* dialog, if one comes up, with confirmed.  The select is disabled while the
\* row's key is pending and reports only a value other than the one it shows.
\* onStatusChange is handleStatusChange of App, which reads the row at the
\* index it is given from its own data.
TableStatusChange(displayIndex, newStatus, confirmed) ==
    /\ Len(edits) < MaxTableEdits
    /\ TableRendered
    /\ LET displayData == DisplayData
           paginatedData == PageOf(displayData, table.currentPage, table.pageSize)
           actualIndex == (table.currentPage - 1) * table.pageSize + displayIndex
       IN  /\ displayIndex \in 0..(Len(paginatedData) - 1)
           /\ newStatus # paginatedData[displayIndex + 1].status
           /\ paginatedData[displayIndex + 1].key \notin pendingUpdates
           /\ IF NeedsConfirm(newStatus) /\ ~confirmed
              THEN /\ edits' = Append(edits, Declined(newStatus))
                   /\ UNCHANGED <<appState, mounted, hidden, timers, fetches,
                                  serverRows, remoteChanges, viewState>>
              ELSE /\ actualIndex \in 0..(Len(displayData) - 1)
                   /\ LET originalIndex == FindIndex(TableData, displayData[actualIndex + 1])
                      IN  /\ originalIndex # -1
                          /\ HandleStatusChange(originalIndex + 1, newStatus)


\* --------------------------------------------------------------------- Next
Next ==
    \/ \E f \in 1..Len(fetches) : FetchServe(f)
    \/ \E f \in 1..Len(fetches) : FetchSucceed(f)
    \/ \E f \in 1..Len(fetches) : FetchFail(f)
    \/ HandleRefresh
    \/ \E i \in 1..Len(data) : HandleStatusChange(i, Toggle(data[i].status))
    \/ \E e \in 1..Len(edits) : UpdateApply(e)
    \/ \E e \in 1..Len(edits) : UpdateSucceed(e)
    \/ \E e \in 1..Len(edits) : UpdateFail(e)
    \/ CloseToast
    \/ Advance
    \/ FetchIntervalFire
    \/ IdleIntervalFire
    \/ ImmediateUpdateFire
    \/ IdleTimeoutFire
    \/ VisibilityChange
    \/ UserActivity
    \/ Unmount
    \/ RemoteChange
    \/ \E q \in Queries : SetSearch(q)
    \/ \E n \in PageSizes : SetPageSize(n)
    \/ PrevPage
    \/ NextPage
    \/ \E field \in SortFields : HandleSort(field)
    \/ \E category \in Categories : HandleCategoryClick(category)
    \/ \E d \in 0..(Len(data) - 1), st \in Status, c \in BOOLEAN :
          TableStatusChange(d, st, c)

Spec == Init /\ [][Next]_vars


\* Spec is the whole program.  The specifications below are Spec from one of
\* its initial sheets and with the actions that can fire there.

\* The program against an empty sheet that nobody else edits: no row is ever
\* shown, so no status can be edited, and what remains is the polling
\* scheduler with its timers and listeners.  ImmediateUpdateFire is left out
\* because its timer is never armed when a task ends (DebounceNeverArmed).
SchedInit == Init /\ serverRows = EmptySheet

SchedNext ==
    \/ \E f \in 1..Len(fetches) : FetchServe(f)
    \/ \E f \in 1..Len(fetches) : FetchSucceed(f)
    \/ \E f \in 1..Len(fetches) : FetchFail(f)
    \/ HandleRefresh
    \/ Advance
    \/ FetchIntervalFire
    \/ IdleIntervalFire
    \/ IdleTimeoutFire
    \/ VisibilityChange
    \/ UserActivity
    \/ Unmount

SchedSpec == SchedInit /\ [][SchedNext]_vars

\* The mounted program within one cadence interval of a (re)start of the
\* effect and with no visibility or activity signal: the timers stay as the
\* effect armed them, and refreshes come from the effect itself, the refresh
\* button and the edits.  A refresh changes the collection and the pending set
\* in the same way whichever call site of loadData dispatched it.
EditNext ==
    \/ \E f \in 1..Len(fetches) : FetchServe(f)
    \/ \E f \in 1..Len(fetches) : FetchSucceed(f)
    \/ \E f \in 1..Len(fetches) : FetchFail(f)
    \/ HandleRefresh
    \/ \E i \in 1..Len(data) : HandleStatusChange(i, Toggle(data[i].status))
    \/ \E e \in 1..Len(edits) : UpdateApply(e)
    \/ \E e \in 1..Len(edits) : UpdateSucceed(e)
    \/ \E e \in 1..Len(edits) : UpdateFail(e)
    \/ CloseToast
    \/ RemoteChange

EditInit == Init /\ serverRows = InitialSheet

EditSpec == EditInit /\ [][EditNext]_vars

\* EditSpec while nobody else edits the sheet, with every remote call
\* resolving in the end.  The strong fairness of an update's resolution makes
\* up for MaxFetches, which holds the resolution back while that many fetches
\* are in flight; the code has no such limit.
EditLiveNext ==
    \/ \E f \in 1..Len(fetches) : FetchServe(f)
    \/ \E f \in 1..Len(fetches) : FetchSucceed(f)
    \/ \E f \in 1..Len(fetches) : FetchFail(f)
    \/ HandleRefresh
    \/ \E i \in 1..Len(data) : HandleStatusChange(i, Toggle(data[i].status))
    \/ \E e \in 1..Len(edits) : UpdateApply(e)
    \/ \E e \in 1..Len(edits) : UpdateSucceed(e)
    \/ \E e \in 1..Len(edits) : UpdateFail(e)

EditFairSpec ==
    /\ EditInit /\ [][EditLiveNext]_vars
    /\ WF_vars(\E f \in 1..Len(fetches) : FetchServe(f))
    /\ WF_vars(\E f \in 1..Len(fetches) : FetchSucceed(f) \/ FetchFail(f))
    /\ \A e \in 1..MaxEdits : WF_vars(e <= Len(edits) /\ UpdateApply(e))
    /\ \A e \in 1..MaxEdits :
          SF_vars(e <= Len(edits) /\ (UpdateSucceed(e) \/ UpdateFail(e)))

\* The program with its ACTIVE cadence timer running while rows are edited,
\* fetches fail, and the component may unmount; nobody else edits the sheet and
\* no visibility or activity signal arrives.
PollNext ==
    \/ \E f \in 1..Len(fetches) : FetchServe(f)
    \/ \E f \in 1..Len(fetches) : FetchSucceed(f)
    \/ \E f \in 1..Len(fetches) : FetchFail(f)
    \/ \E i \in 1..Len(data) : HandleStatusChange(i, Toggle(data[i].status))
    \/ \E e \in 1..Len(edits) : UpdateApply(e)
    \/ \E e \in 1..Len(edits) : UpdateSucceed(e)
    \/ \E e \in 1..Len(edits) : UpdateFail(e)
    \/ Advance
    \/ FetchIntervalFire
    \/ Unmount

PollSpec == EditInit /\ [][PollNext]_vars


\* The table over the two-row sheet while other users change the sheet: the
\* search box, the column headers, the category cards and the status selects.
\* The rows fit on the first page.  The calls that carry an edit to the sheet
\* are left to EditSpec.
ViewNext ==
    \/ \E f \in 1..Len(fetches) : FetchServe(f)
    \/ \E f \in 1..Len(fetches) : FetchSucceed(f)
    \/ RemoteChange
    \/ \E q \in Queries : SetSearch(q)
    \/ \E field \in SortFields : HandleSort(field)
    \/ \E category \in Categories : HandleCategoryClick(category)
    \/ \E d \in 0..(Len(data) - 1), st \in Status, c \in BOOLEAN :
          TableStatusChange(d, st, c)

ViewSpec == EditInit /\ [][ViewNext]_vars

\* The table over a sheet of one to MaxRows rows that nobody edits, in sheet
\* order: searching, paging and filtering by category.  Sorting permutes the
\* rows shown and leaves their number alone; ViewSpec has it.
PageInit == Init /\ serverRows \in LongSheets

PageNext ==
    \/ \E f \in 1..Len(fetches) : FetchServe(f)
    \/ \E f \in 1..Len(fetches) : FetchSucceed(f)
    \/ \E q \in Queries : SetSearch(q)
    \/ \E n \in PageSizes : SetPageSize(n)
    \/ PrevPage
    \/ NextPage
    \/ \E category \in Categories : HandleCategoryClick(category)

PageSpec == PageInit /\ [][PageNext]_vars

\* ------------------------------------------------------------------ claims
\* updateStatus calls in flight for key k
InFlight(k) == {e \in DOMAIN edits : edits[e].key = k /\ edits[e].phase = "submitting"}

\* C1: for every composite row key at most one remote updateStatus call for
\* that key is in flight, in every reachable state.
C1_AtMostOneUpdateInFlight ==
    \A k \in Keys : Cardinality(InFlight(k)) <= 1

\* C2: from the optimistic write until the remote update call resolves, the
\* row with the edited key shows the new status in the collection, whatever
\* refreshes resolve in between.
C2_NoFlicker ==
    \A e \in DOMAIN edits :
        (mounted /\ edits[e].phase = "submitting")
            => \A j \in RowsWithKey(data, edits[e].key) : data[j].status = edits[e].new

\* the step in which the update call of edit e rejects
Fails(e) == edits[e].phase = "submitting" /\ edits'[e].phase = "failed"

\* the row with edit e's key shows the status it had before the edit
RevertedByKey(rows, e) ==
    \A j \in RowsWithKey(rows, edits[e].key) : rows[j].status = edits[e].pre

\* C3: on update failure the status of the row with the edited key is back at
\* its pre-edit value, the key is out of the pending set, exactly one failure
\* notification is emitted for the edit, and no update call is made again.
C3_RollbackOnFailure ==
    [][\A e \in DOMAIN edits :
          (mounted /\ Fails(e))
              => /\ RevertedByKey(data', e)
                 /\ edits[e].key \notin pendingUpdates'
                 /\ edits'[e].failToasts = 1
                 /\ edits'[e].okToasts = 0
                 /\ toast' = "error"
                 /\ Len(edits') = Len(edits)
                 /\ \A d \in DOMAIN edits' : edits'[d].phase = "submitting"
                                                => edits[d].phase = "submitting"]_vars

\* the step in which edit e ends
Ends(e) ==
    /\ edits[e].phase \in {"submitting", "confirming"}
    /\ edits'[e].phase \in {"confirmed", "failed"}

\* C4: every edit that passed the guard ends in exactly one of: (a) the
\* update succeeded and exactly one success notification is emitted; (b) the
\* update failed, the status is reverted and exactly one failure notification
\* is emitted.  An edit still in flight has emitted none.
C4_ExactlyOneOutcome ==
    [][\A e \in DOMAIN edits :
          /\ edits'[e].phase \in {"submitting", "confirming"}
                => edits'[e].okToasts = 0 /\ edits'[e].failToasts = 0
          /\ (mounted /\ Ends(e))
                => \/ /\ edits[e].phase = "confirming"
                      /\ edits'[e].phase = "confirmed"
                      /\ edits'[e].okToasts = 1
                      /\ edits'[e].failToasts = 0
                      /\ toast' = "success"
                   \/ /\ edits[e].phase = "submitting"
                      /\ edits'[e].phase = "failed"
                      /\ edits'[e].okToasts = 0
                      /\ edits'[e].failToasts = 1
                      /\ toast' = "error"
                      /\ RevertedByKey(data', e)]_vars

\* A key is in the pending set only while an edit that marked it has its
\* update call unresolved.
NoDanglingPending ==
    mounted => \A k \in pendingUpdates : InFlight(k) # {}

\* C5: the pending set never holds a dangling entry: a key is in it only while
\* an edit that marked it has not completed its update call, and every key
\* marked pending is removed in the end, given that every remote call resolves.
C5_PendingCleared ==
    /\ []NoDanglingPending
    /\ \A k \in Keys : (k \in pendingUpdates) ~> (k \notin pendingUpdates)

\* an edit's update call has resolved and its key is no longer pending
C5_Witness ==
    \E e \in DOMAIN edits :
        /\ edits[e].phase \in {"confirming", "confirmed", "failed"}
        /\ edits[e].key \notin pendingUpdates
        /\ \E d \in DOMAIN edits : d # e /\ edits[d].phase = "submitting"
                                      /\ edits[d].key \in pendingUpdates

\* C6: submitting an edit for a row key that is in the pending set changes
\* neither the collection nor the pending set nor the notification state and
\* dispatches no call.
C6_PendingSubmitIsNoop ==
    [][\A e \in DOMAIN edits' \ DOMAIN edits :
          edits'[e].key \in pendingUpdates
              => /\ edits'[e].phase = "ignored"
                 /\ data' = data
                 /\ pendingUpdates' = pendingUpdates
                 /\ toast' = toast
                 /\ error' = error
                 /\ fetches' = fetches]_vars

\* an edit was submitted for a key in the pending set and was ignored
C6_Witness ==
    \E e \in DOMAIN edits :
        /\ edits[e].phase = "ignored"
        /\ edits[e].key \in pendingUpdates
        /\ InFlight(edits[e].key) # {}


\* the cadence in effect: the interval of the armed cadence timer
Cadence(t) == IF t.idleInterval # Off THEN IDLE_FETCH_INTERVAL ELSE FETCH_INTERVAL

OnIdleCadence(t) == t.idleInterval # Off /\ t.fetchInterval = Off

OnActiveCadence(t) == t.fetchInterval # Off /\ t.idleInterval = Off

\* a step in which the scheduler dispatches a refresh on its own: a cadence
\* tick that passes its guard, or the effect body run again after a refresh
\* completed
SchedulerDispatch ==
    \/ FetchIntervalFire /\ Len(fetches') > Len(fetches)
    \/ IdleIntervalFire /\ Len(fetches') > Len(fetches)
    \/ mounted /\ \E f \in 1..Len(fetches) : FetchSucceed(f)

\* C7: a refresh the scheduler dispatches on its own is dispatched only when
\* at least one full interval of the current cadence has passed since the last
\* completed refresh, so that without external signals consecutive dispatches
\* are at least one interval apart.
C7_CadenceRespectsInterval ==
    [][SchedulerDispatch => lastFetchAge' >= Cadence(timers')]_vars

\* C8: after a user-activity signal the debounce timer is pending, to dispatch
\* the one debounced refresh once the delay has passed.
C8_DebounceArmedAfterActivity ==
    [][UserActivity => timers'.immediateUpdateTimeout = DEBOUNCE_DELAY]_vars

\* a visibility or user-activity signal, or the component unmounting
Signal == VisibilityChange \/ UserActivity \/ Unmount

\* C9: after a user-activity signal the scheduler is on the ACTIVE cadence with
\* the fallback timer armed, and while no further signal arrives the fallback
\* timer stays armed until it fires and demotes the scheduler to the IDLE
\* cadence, also across completed refreshes.
C9_FallbackDemotes ==
    [][/\ UserActivity => OnActiveCadence(timers') /\ timers'.idleTimeout # Off
       /\ (timers.idleTimeout # Off /\ ~Signal)
             => \/ timers'.idleTimeout # Off
                \/ IdleTimeoutFire /\ OnIdleCadence(timers')]_vars

\* C10: a visibility-hidden signal puts the scheduler on the IDLE cadence, with
\* only the slow timer armed, and it stays there until a visibility-visible or
\* user-activity signal; a completed refresh does not change the cadence.
C10_HiddenStaysIdle ==
    [][/\ (mounted /\ VisibilityChange /\ hidden') => OnIdleCadence(timers')
       /\ (mounted /\ hidden /\ OnIdleCadence(timers) /\ ~Signal)
             => OnIdleCadence(timers')]_vars

\* The debounce timeout is cleared by the startFetching call that follows it
\* in handleUserActivity: no task ends with it armed.
DebounceNeverArmed == timers.immediateUpdateTimeout = Off

\* a fetchSheetData call rejects while the component is mounted
MountedFetchFail(f) == mounted /\ FetchFail(f)

\* a cadence timer's callback runs
CadenceFire == FetchIntervalFire \/ IdleIntervalFire

\* C11: a failed fetch sets the error, leaves the collection and the pending
\* set as they were and does not touch the timers, so the cadence timer stays
\* armed; and every tick of a cadence timer dispatches a refresh.
C11_FailedFetchKeepsPolling ==
    [][/\ \A f \in 1..Len(fetches) :
             MountedFetchFail(f)
                 => /\ error' = "load"
                    /\ data' = data
                    /\ pendingUpdates' = pendingUpdates
                    /\ timers' = timers
                    /\ OnActiveCadence(timers') \/ OnIdleCadence(timers')
       /\ CadenceFire => /\ Len(fetches') = Len(fetches) + 1
                         /\ fetches'[Len(fetches')].origin = "tick"]_vars

\* the error of a failed fetch shows over a collection with an edit pending,
\* and the cadence timer is due
C11_Witness ==
    /\ mounted
    /\ error = "load"
    /\ data # <<>>
    /\ pendingUpdates # {}
    /\ timers.fetchInterval = 0

\* a fetchSheetData call resolves while the component is mounted
MountedFetchSucceed(f) == mounted /\ FetchSucceed(f)

\* C12: when a fetch resolves successfully the collection becomes that
\* fetch's snapshot and the pending set becomes empty, whichever of the calls
\* in flight it is: the one that resolves last determines the collection.
C12_LastResolvedWins ==
    [][\A f \in 1..Len(fetches) :
          MountedFetchSucceed(f)
              => /\ data' = fetches[f].snap
                 /\ pendingUpdates' = {}]_vars

\* a snapshot taken before an edit reached the sheet has replaced the
\* optimistic status and emptied the pending set while the edit is in flight
C12_Witness ==
    /\ mounted
    /\ \E e \in DOMAIN edits :
          /\ edits[e].phase = "submitting"
          /\ edits[e].key \notin pendingUpdates
          /\ edits[e].idx <= Len(data)
          /\ data[edits[e].idx] = Row(edits[e].key, edits[e].pre)

\* the refresh that edit e awaits after its update succeeded
FollowUp(f, e) == fetches[f].origin = "confirm" /\ fetches[f].edit = e

\* C13: the step in which an update resolves, with success or failure,
\* dispatches a refresh whatever time has passed since the last one; when the
\* refresh that follows a successful update resolves with data, the edited key
\* is not in the pending set, and when it resolves with an error the key is in
\* the pending set only for a later edit of the row that is still in flight.
C13_RefreshAfterUpdate ==
    [][\A e \in DOMAIN edits :
          /\ UpdateSucceed(e)
                => fetches' = Append(fetches, Fetch("confirm", e))
          /\ UpdateFail(e)
                => fetches' = Append(fetches, Fetch("rollback", 0))
          /\ \A f \in 1..Len(fetches) :
                /\ (FollowUp(f, e) /\ MountedFetchSucceed(f))
                      => edits[e].key \notin pendingUpdates'
                /\ (FollowUp(f, e) /\ MountedFetchFail(f))
                      => \/ edits[e].key \notin pendingUpdates'
                         \/ (InFlight(edits[e].key) # {})']_vars

\* one edit was confirmed by its follow-up refresh, another failed and its
\* refresh is in flight, less than an interval after the last refresh
C13_Witness ==
    /\ mounted
    /\ lastFetchAge < FETCH_INTERVAL
    /\ \E e \in DOMAIN edits :
          edits[e].phase = "confirmed" /\ edits[e].key \notin pendingUpdates
    /\ \E d \in DOMAIN edits : edits[d].phase = "failed"
    /\ \E f \in 1..Len(fetches) : fetches[f].origin = "rollback"

C15_TeardownCancelsTimers ==
    /\ [](~mounted => Armed(timers) = {})
    /\ [][~mounted => /\ timers' = timers
                      /\ Len(fetches') <= Len(fetches)
                      /\ ~CadenceFire
                      /\ ~IdleTimeoutFire
                      /\ ~ImmediateUpdateFire]_vars

\* unmounted after the timers had run, with the outstanding calls resolved
\* and the page hidden
C15_Witness ==
    /\ ~mounted
    /\ hidden
    /\ fetches = <<>>
    /\ lastFetchAge > 0
    /\ Armed(timers) = {}

\* handleStatusChange of DataTable runs for a row of the page shown
StatusPick(newStatus, confirmed) ==
    /\ Len(edits') = Len(edits) + 1
    /\ \E d \in 0..(Len(PaginatedData) - 1) : TableStatusChange(d, newStatus, confirmed)

\* C16: a change to Reserved that the user declines leaves the collection,
\* the pending set, the toast and the error as they were and dispatches
\* nothing; an update for a change to Reserved is dispatched only after the
\* user confirmed; a change to Open goes to handleStatusChange of App without
\* a confirmation.
C16_DeclineChangesNothing ==
    [][/\ StatusPick("Reserved", FALSE)
             => /\ UNCHANGED <<data, pendingUpdates, toast, error, fetches>>
                /\ edits' = Append(edits, Declined("Reserved"))
       /\ StatusPick("Open", FALSE)
             => /\ Len(edits') = Len(edits) + 1
                /\ edits'[Len(edits')].phase \in {"submitting", "ignored"}
                /\ edits'[Len(edits')].new = "Open"
       /\ \A e \in DOMAIN edits' \ DOMAIN edits :
             (edits'[e].new = "Reserved" /\ edits'[e].phase = "submitting")
                 => StatusPick("Reserved", TRUE)]_vars

\* the user declined a change to Reserved of a row shown as Open: the row is
\* still Open and nothing is pending
C16_Witness ==
    /\ TableRendered
    /\ \E e \in DOMAIN edits : edits[e] = Declined("Reserved")
    /\ \E i \in 1..Len(PaginatedData) : PaginatedData[i].status = "Open"
    /\ pendingUpdates = {}

\* C17: while the table is shown currentPage is at least 1 and at most the
\* number of pages the rows shown need, which is at least 1.
C17_PageIndexInRange ==
    TableRendered
        => /\ table.currentPage >= 1
           /\ table.currentPage <=
                 (IF table.pageSize = ALL_ROWS
                  THEN 1
                  ELSE Max(1, Ceil(Len(DisplayData), table.pageSize)))

\* pages 1..n of rows, one after the other
RECURSIVE PagesUpTo(_, _, _)
PagesUpTo(rows, n, pageSize) ==
    IF n <= 0 THEN <<>>
    ELSE PagesUpTo(rows, n - 1, pageSize) \o PageOf(rows, n, pageSize)

\* C18: totalPages is ceil(count / pageSize) and at least 1, also for no
\* rows; with the page size All there is one page that holds all rows;
\* otherwise page k holds rows (k-1)*pageSize+1 to k*pageSize, and the pages 1
\* to totalPages one after the other are the rows shown.
C18_PaginationContract ==
    TableRendered
        => LET rows == DisplayData
               n == Len(rows)
               size == table.pageSize
           IN  /\ TotalPages = (IF size = ALL_ROWS THEN 1 ELSE Max(1, Ceil(n, size)))
               /\ size = ALL_ROWS => PageOf(rows, table.currentPage, size) = rows
               /\ size # ALL_ROWS
                     => \A k \in 1..TotalPages :
                           PageOf(rows, k, size)
                               = SubSeq(rows, (k - 1) * size + 1, Min(k * size, n))
               /\ PagesUpTo(rows, TotalPages, size) = rows

\* the query is in the "end" suffix mode
EndMode(searchTerms) ==
    /\ EndPattern(searchTerms)
    /\ IsDigits(Join(SubSeq(searchTerms, 1, Len(searchTerms) - 1)))

\* C19: for a term of the query that is all digits, the query not being in
\* the "end" mode, a row of the table matches the term exactly if its msisdn
\* contains the term.
C19_DigitTermMatchesPhoneOnly ==
    (TableRendered /\ Len(Trim(table.search)) > 0)
        => LET searchTerms == SearchTerms(table.search)
           IN  \A t \in 1..Len(searchTerms) :
                  (IsDigits(searchTerms[t]) /\ ~EndMode(searchTerms))
                      => \A i \in 1..Len(TableData) :
                            TermMatches(TableData[i], searchTerms[t], searchTerms)
                                <=> Includes(Msisdn(TableData[i].key), searchTerms[t])

\* C20: the row a status change made in the table marks, writes and submits
\* has the key of the row of the page the user made it on.
C20_EditHitsDisplayedRow ==
    [][\A d \in 0..(Len(PaginatedData) - 1), st \in Status :
          (/\ Len(edits') = Len(edits) + 1
           /\ edits'[Len(edits')].phase # "declined"
           /\ TableStatusChange(d, st, TRUE))
              => /\ edits'[Len(edits')].key = PaginatedData[d + 1].key
                 /\ edits'[Len(edits')].idx \in RowsWithKey(data, PaginatedData[d + 1].key)
                 /\ edits'[Len(edits')].pre = PaginatedData[d + 1].status]_vars

\* C21: the step in which an update fails changes nothing of the collection
\* but the status of the row with the edited key: the collection keeps its
\* length, every row keeps its key, and every row with another key is as it
\* was.
C21_RollbackTouchesOnlyEditedRow ==
    [][\A e \in DOMAIN edits :
          (mounted /\ Fails(e))
              => /\ Len(data') = Len(data)
                 /\ \A j \in 1..Len(data) :
                       /\ data'[j].key = data[j].key
                       /\ data[j].key # edits[e].key => data'[j] = data[j]]_vars

====
